---- MODULE Spec2Model ----
(***************************************************************************)
(* The RPC dispatch engine of src/dispatcher/src/rpc/rpc.py: the service   *)
(* registry of RpcContext (services, instances), register_service,         *)
(* unregister_service, dispatch_call, RpcService.enumerate_methods and the *)
(* four services the constructor registers.                                *)
(*                                                                         *)
(* A Python string is a sequence of symbols.  The symbols "." and "_" are  *)
(* the two characters the code inspects (rpartition(".") and               *)
(* startswith('_')); a maximal run of other characters is one symbol.      *)
(* Parameter names, which the code never takes apart, are plain strings.   *)
(*                                                                         *)
(* The members of an instance are the methods its class defines or         *)
(* inherits from RpcService and the private attributes its methods set;    *)
(* the attributes every Python object has (__class__, __dict__, ...) are   *)
(* not listed.  The balancer, the datastore and the dispatcher are         *)
(* collaborators outside this file: a call to one returns a value that     *)
(* depends on the call alone, or raises.  Constructing a service class     *)
(* succeeds, as it does for the four classes here; initialize may raise.   *)
(*                                                                         *)
(* Spec has one caller at a time, each call running to its end.  SpecConc  *)
(* has two threads that run the same calls statement by statement.         *)
(***************************************************************************)
EXTENDS Integers, Sequences, FiniteSets, TLC

(* ------------------------------ bounds --------------------------------- *)
\* longest positional argument list a caller passes
MaxArgs == 2

(* ------------------------------ strings -------------------------------- *)
Dot == "."
Underscore == "_"
EmptyStr == <<>>

server == <<"server">>
discovery == <<"discovery">>
task == <<"task">>
event == <<"event">>
\* a plugin's service name with a dot in it
net_math == <<"net", ".", "math">>
\* a name never registered
geometry == <<"geometry">>

\* str.startswith('_')
startswith_underscore(s) == Len(s) > 0 /\ s[1] = Underscore

\* str.rfind("."): the index of the last "." of s[1..i], 0 when there is none
RECURSIVE rfind(_, _)
rfind(s, i) ==
    IF i = 0 THEN 0
    ELSE IF s[i] = Dot THEN i
    ELSE rfind(s, i - 1)

\* a faulty variant of rpartition: str.partition, which splits at the FIRST "."
RECURSIVE find(_, _)
find(s, i) ==
    IF i > Len(s) THEN 0
    ELSE IF s[i] = Dot THEN i
    ELSE find(s, i + 1)

partition(s) ==
    LET i == find(s, 1) IN
    IF i = 0 THEN <<s, EmptyStr, EmptyStr>>
    ELSE <<SubSeq(s, 1, i - 1), <<Dot>>, SubSeq(s, i + 1, Len(s))>>

\* str.rpartition("."): <<head, sep, tail>>; no "." gives <<"", "", s>>
rpartition(s) ==
    LET i == rfind(s, Len(s)) IN
    IF i = 0 THEN <<EmptyStr, EmptyStr, s>>
    ELSE <<SubSeq(s, 1, i - 1), <<Dot>>, SubSeq(s, i + 1, Len(s))>>

(* ------------------------------ values --------------------------------- *)
\* Python's None, and the RpcContext object itself, as argument values
PyNone == <<"<None>">>
RpcCtx == <<"<RpcContext>">>
\* the values a caller passes as arguments
ArgValues == {task, geometry}
\* marks a key a dict does not have
Absent == <<"<absent>">>

\* every keyword a caller may use in a dict of arguments
ArgKeys == {"service", "name", "args", "limit", "bogus"}
\* the key sets of the dicts a caller passes
KeySets == {{}, {"service"}, {"name", "args"}, {"name"}, {"limit"}, {"bogus"},
            {"service", "bogus"}}

\* args as dispatch_call receives it: type(args), the dict's items (kw)
\* and the list's elements (pos)
NoKw == [k \in ArgKeys |-> Absent]
DictArgs ==
    { [type |-> "dict", kw |-> kw, pos |-> <<>>] :
        kw \in { f \in [ArgKeys -> ArgValues \cup {Absent}] :
                    {k \in ArgKeys : f[k] # Absent} \in KeySets } }
ListArgs ==
    { [type |-> "list", kw |-> NoKw, pos |-> pos] :
        pos \in UNION { [1..n -> ArgValues] : n \in 0..MaxArgs } }
NoneArgs == [type |-> "NoneType", kw |-> NoKw, pos |-> <<>>]
OtherArgs ==
    { [type |-> t, kw |-> NoKw, pos |-> <<>>] : t \in {"str", "int"} }
ArgInputs == DictArgs \cup ListArgs \cup OtherArgs \cup {NoneArgs}

keys(args) == {k \in ArgKeys : args.kw[k] # Absent}

(* ------------------------------ errors --------------------------------- *)
\* RpcException(code, message); detail is what format() put in the message
RpcException(code, message, detail) ==
    [type |-> "RpcException", code |-> code, message |-> message,
     detail |-> detail]
\* any other exception class
PyException(type) ==
    [type |-> type, code |-> "", message |-> "", detail |-> EmptyStr]
NoExc == PyException("")

ENOENT == "ENOENT"
EINVAL == "EINVAL"

(* ------------------------------ members -------------------------------- *)
\* every parameter name of a method of the four services
AllParams == {"context", "service", "mask", "start", "end", "limit", "id",
              "name", "args"}
\* the binding of a call: the value of each parameter, Absent for a name
\* the method does not declare
NoEnv == [p \in AllParams |-> Absent]

initialize == <<"initialize">>
enumerate_methods == <<"enumerate", "_", "methods">>
dunder_init == <<"_", "_", "init", "_", "_">>
status == <<"status">>
restart == <<"restart">>
reload_plugins == <<"reload", "_", "plugins">>
get_connected_clients == <<"get", "_", "connected", "_", "clients">>
die_you_gravy_sucking_pig_dog ==
    <<"die", "_", "you", "_", "gravy", "_", "sucking", "_", "pig", "_", "dog">>
get_services == <<"get", "_", "services">>
get_tasks == <<"get", "_", "tasks">>
get_methods == <<"get", "_", "methods">>
query == <<"query">>
submit == <<"submit">>
abort == <<"abort">>
list_queues == <<"list", "_", "queues">>
list_tasks == <<"list", "_", "tasks">>
list_active == <<"list", "_", "active">>
list_failed == <<"list", "_", "failed">>
\* a name no service has
missing == <<"missing">>

\* self.__x inside class C is the attribute _C__x
mangled(clazz, attr) == <<Underscore, clazz, Underscore, Underscore, attr>>

\* a method: its name, its parameters after self in order, how many of them
\* have no default, what its body does, and the attributes of self it reads
Method(name, params, nreq, body, needs) ==
    [name |-> name, kind |-> "method", params |-> params, nreq |-> nreq,
     body |-> body, needs |-> needs]
\* a data attribute: not a method, not callable
Attr(name) ==
    [name |-> name, kind |-> "attr", params |-> <<>>, nreq |-> 0,
     body |-> "", needs |-> {}]

Classes == {"ManagementService", "DiscoveryService", "EventService",
            "TaskService"}

\* the methods of a class, RpcService's included, in the order of their names
Methods(clazz) ==
    CASE clazz = "ManagementService" ->
         LET ctx == {mangled(clazz, "context")} IN
         << Method(die_you_gravy_sucking_pig_dog, <<>>, 0, "call", ctx),
            Method(enumerate_methods, <<>>, 0, "enumerate_methods", {}),
            Method(get_connected_clients, <<>>, 0, "callret", ctx),
            Method(initialize, <<"context">>, 1, "initialize", {}),
            Method(reload_plugins, <<>>, 0, "call", ctx),
            Method(restart, <<>>, 0, "pass", {}),
            Method(status, <<>>, 0, "pass", {}) >>
      [] clazz = "DiscoveryService" ->
         LET ctx == {mangled(clazz, "context")} IN
         << Method(dunder_init, <<>>, 0, "__init__", {}),
            Method(enumerate_methods, <<>>, 0, "enumerate_methods", {}),
            Method(get_methods, <<"service">>, 1, "get_methods", ctx),
            Method(get_services, <<>>, 0, "get_services", ctx),
            Method(get_tasks, <<>>, 0, "callret", ctx),
            Method(initialize, <<"context">>, 1, "initialize", {}) >>
      [] clazz = "EventService" ->
         << Method(enumerate_methods, <<>>, 0, "enumerate_methods", {}),
            Method(initialize, <<"context">>, 1, "initialize", {}),
            Method(query, <<"mask", "start", "end", "limit">>, 1, "callret",
                   {mangled(clazz, "datastore")}) >>
      [] clazz = "TaskService" ->
         LET ds == {mangled(clazz, "datastore")}
             bal == {mangled(clazz, "balancer")} IN
         << Method(abort, <<"id">>, 1, "call", bal),
            Method(enumerate_methods, <<>>, 0, "enumerate_methods", {}),
            Method(initialize, <<"context">>, 1, "initialize", {}),
            Method(list_active, <<>>, 0, "callret", bal),
            Method(list_failed, <<>>, 0, "callret", bal),
            Method(list_queues, <<>>, 0, "callret", bal),
            Method(list_tasks, <<"limit">>, 0, "callret", ds),
            Method(status, <<"id">>, 1, "callret", ds \cup bal),
            Method(submit, <<"name", "args">>, 2, "callret", bal) >>

\* the data attributes the methods of a class set on self, in name order
DataAttrs(clazz) ==
    CASE clazz = "ManagementService" -> << mangled(clazz, "context") >>
      [] clazz = "DiscoveryService" -> << mangled(clazz, "context") >>
      [] clazz = "EventService" ->
         << mangled(clazz, "datastore"), mangled(clazz, "dispatcher") >>
      [] clazz = "TaskService" ->
         << mangled(clazz, "balancer"), mangled(clazz, "datastore") >>

\* the services whose private context attribute is the RpcContext itself
KeepsContext(clazz) == clazz \in {"ManagementService", "DiscoveryService"}

(* ------------------------------ instances ------------------------------ *)
\* clazz(): a fresh object.  Only DiscoveryService has an __init__, which
\* sets __context to None; initialized tells that an initialize call on the
\* object has returned
NewInstance(id, clazz) ==
    [id |-> id, clazz |-> clazz, initialized |-> FALSE,
     attrs |-> IF clazz = "DiscoveryService"
               THEN {mangled(clazz, "context")} ELSE {},
     context |-> IF clazz = "DiscoveryService" THEN PyNone ELSE Absent]

\* what the dispatcher object offers to a service's initialize
DispatcherAttrs == {"datastore", "balancer"}

AttributeError == PyException("AttributeError")
TypeError == PyException("TypeError")
KeyError == PyException("KeyError")

\* initialize(context) of each service: the instance afterwards and the
\* exception raised, if any.  dispatcher is the set of attributes
\* context.dispatcher has; a context that is not the RpcContext has none
Initialize(inst, context, dispatcher) ==
    LET has(a) == context = RpcCtx /\ a \in dispatcher
        c == inst.clazz IN
    CASE KeepsContext(c) ->
         [inst |-> [inst EXCEPT !.attrs = @ \cup {mangled(c, "context")},
                                !.context = context,
                                !.initialized = TRUE],
          exc |-> NoExc]
      [] c = "EventService" ->
         IF ~has("datastore") THEN [inst |-> inst, exc |-> AttributeError]
         ELSE [inst |-> [inst EXCEPT
                            !.attrs = @ \cup {mangled(c, "datastore"),
                                              mangled(c, "dispatcher")},
                            !.initialized = TRUE],
               exc |-> NoExc]
      [] c = "TaskService" ->
         IF ~has("datastore") THEN [inst |-> inst, exc |-> AttributeError]
         ELSE IF ~has("balancer")
         THEN [inst |-> [inst EXCEPT
                            !.attrs = @ \cup {mangled(c, "datastore")}],
               exc |-> AttributeError]
         ELSE [inst |-> [inst EXCEPT
                            !.attrs = @ \cup {mangled(c, "datastore"),
                                              mangled(c, "balancer")},
                            !.initialized = TRUE],
               exc |-> NoExc]

\* inspect.getmembers(self): the attributes of the instance by name; the
\* mangled data attributes sort before every method name
getmembers(inst) ==
    SelectSeq([i \in 1..Len(DataAttrs(inst.clazz)) |->
                   Attr(DataAttrs(inst.clazz)[i])],
              LAMBDA m : m.name \in inst.attrs)
    \o Methods(inst.clazz)

ismethod(m) == m.kind = "method"

\* a faulty variant of enumerate_methods: the reserved names are not skipped
RECURSIVE enumerate_all_public(_)
enumerate_all_public(members) ==
    IF members = <<>> THEN <<>>
    ELSE LET method == Head(members).name
             rest == enumerate_all_public(Tail(members)) IN
         IF startswith_underscore(method) THEN rest
         ELSE <<method>> \o rest

\* RpcService.enumerate_methods over getmembers(self, ismethod)
RECURSIVE enumerate(_)
enumerate(members) ==
    IF members = <<>> THEN <<>>
    ELSE LET method == Head(members).name
             rest == enumerate(Tail(members)) IN
         IF startswith_underscore(method) THEN rest
         ELSE IF method \in {initialize, enumerate_methods} THEN rest
         ELSE <<method>> \o rest

EnumerateMethods(inst) == enumerate(SelectSeq(getmembers(inst), ismethod))

(* ------------------------------ results -------------------------------- *)
\* what an operation returns: None, the keys of the registry (a list in no
\* particular order), a list of method names, the generator a direct call of
\* enumerate_methods hands back, or whatever a collaborator (balancer,
\* datastore, dispatcher) returned for the call made with this binding
Value(kind, names, keyset, call, env) ==
    [kind |-> kind, names |-> names, keyset |-> keyset, call |-> call,
     env |-> env]
NoneValue == Value("None", <<>>, {}, EmptyStr, NoEnv)
NoValue == Value("", <<>>, {}, EmptyStr, NoEnv)

\* what the code behind an opaque collaborator call may do
Faults == {"none", "TypeError", "RpcException", "OSError"}
FaultExc(fault) ==
    CASE fault = "TypeError" -> TypeError
      [] fault = "RpcException" ->
         RpcException(ENOENT, "Task not found", EmptyStr)
      [] fault = "OSError" -> PyException("OSError")
      [] OTHER -> NoExc

(* ------------------------------ binding -------------------------------- *)
Range(f) == {f[i] : i \in DOMAIN f}
IndexOf(seq, x) == CHOOSE i \in 1..Len(seq) : seq[i] = x

\* a faulty variant of bind_keywords: a required parameter left out is not
\* noticed and takes None
bind_keywords_lenient(func, args) ==
    LET params == Range(func.params) IN
    [ok |-> keys(args) \subseteq params,
     env |-> [p \in AllParams |->
                IF p \notin params THEN Absent
                ELSE IF p \in keys(args) THEN args.kw[p]
                ELSE PyNone]]

\* func(**args): every key names a parameter and every parameter without a
\* default has a key; a parameter left out takes its default, None
bind_keywords(func, args) ==
    LET params == Range(func.params)
        required == {func.params[i] : i \in 1..func.nreq} IN
    [ok |-> keys(args) \subseteq params /\ required \subseteq keys(args),
     env |-> [p \in AllParams |->
                IF p \notin params THEN Absent
                ELSE IF p \in keys(args) THEN args.kw[p]
                ELSE PyNone]]

\* a faulty variant of bind_positional: the values are bound last to first
bind_reversed(func, args) ==
    LET n == Len(args.pos) IN
    [ok |-> func.nreq <= n /\ n <= Len(func.params),
     env |-> [p \in AllParams |->
                IF p \notin Range(func.params) THEN Absent
                ELSE IF IndexOf(func.params, p) <= n
                THEN args.pos[n + 1 - IndexOf(func.params, p)]
                ELSE PyNone]]

\* func(*args): the i-th value goes to the i-th parameter; there are at
\* least as many values as parameters without a default and no more than
\* parameters
bind_positional(func, args) ==
    LET n == Len(args.pos) IN
    [ok |-> func.nreq <= n /\ n <= Len(func.params),
     env |-> [p \in AllParams |->
                IF p \notin Range(func.params) THEN Absent
                ELSE IF IndexOf(func.params, p) <= n
                THEN args.pos[IndexOf(func.params, p)]
                ELSE PyNone]]

(* ------------------------------ bodies --------------------------------- *)
Outcome(exc, value, inst) == [exc |-> exc, value |-> value, inst |-> inst]

\* the bodies that hand the call on to a collaborator
Opaque(func) == func.body \in {"call", "callret"}

\* the body of a method of a service, run on inst with the binding env.
\* services and instances are the registry the discovery service reads
\* through its context; fault is what a collaborator's code does
Body(func, inst, env, services, instances, fault) ==
    LET usable ==
            /\ func.needs \subseteq inst.attrs
            /\ KeepsContext(inst.clazz) /\ func.needs # {}
                   => inst.context = RpcCtx
    IN
    IF func.body = "pass" THEN Outcome(NoExc, NoneValue, inst)
    ELSE IF func.body = "initialize"
    THEN LET r == Initialize(inst, env["context"], DispatcherAttrs) IN
         Outcome(r.exc, IF r.exc = NoExc THEN NoneValue ELSE NoValue, r.inst)
    ELSE IF func.body = "__init__"
    THEN Outcome(NoExc, NoneValue, [inst EXCEPT !.context = PyNone])
    ELSE IF func.body = "enumerate_methods"
    THEN Outcome(NoExc,
                 Value("generator", EnumerateMethods(inst), {}, EmptyStr,
                       NoEnv),
                 inst)
    ELSE IF ~usable THEN Outcome(AttributeError, NoValue, inst)
    ELSE IF func.body = "get_services"
    THEN Outcome(NoExc,
                 Value("keys", <<>>, DOMAIN services, EmptyStr, NoEnv), inst)
    ELSE IF func.body = "get_methods"
    THEN IF env["service"] \notin DOMAIN services
         THEN Outcome(RpcException(ENOENT, "Service not found", EmptyStr),
                      NoValue, inst)
         ELSE IF env["service"] \notin DOMAIN instances
         THEN Outcome(KeyError, NoValue, inst)
         ELSE Outcome(NoExc,
                      Value("list",
                            EnumerateMethods(instances[env["service"]]), {},
                            EmptyStr, NoEnv),
                      inst)
    ELSE IF fault # "none" THEN Outcome(FaultExc(fault), NoValue, inst)
    ELSE IF func.body = "call" THEN Outcome(NoExc, NoneValue, inst)
    ELSE Outcome(NoExc, Value("collab", <<>>, {}, func.name, env), inst)

(* ------------------------------ dispatch ------------------------------- *)
\* getattr(instance, name)
hasattr(inst, name) == \E m \in Range(getmembers(inst)) : m.name = name
getattr(inst, name) == CHOOSE m \in Range(getmembers(inst)) : m.name = name

\* the answer of a call: the exception that left it or the value returned;
\* whether an operation's body was entered, on which member of which
\* instance (and whether an initialize call on that instance had returned),
\* with which binding, what the body itself raised, and the instances
\* afterwards
Result(exc, value, invoked, member, inst, env, bodyexc, instances) ==
    [raised |-> exc # NoExc, exc |-> exc, value |-> value,
     invoked |-> invoked, member |-> member,
     inst |-> IF invoked THEN inst.id ELSE 0,
     initialized |-> invoked /\ inst.initialized,
     env |-> env, bodyexc |-> bodyexc,
     opaque |-> invoked /\ Opaque(getattr(inst, member)),
     instances |-> instances]
Raise(exc, instances) ==
    Result(exc, NoValue, FALSE, EmptyStr, <<>>, NoEnv, NoExc, instances)

\* lines 48-56: the call of the resolved attribute and the except clause
\* around it
call(func, inst, service, bound, services, instances, fault) ==
    IF func.kind # "method" \/ ~bound.ok
    THEN \* TypeError: not callable, or the arguments do not fit
         Raise(RpcException(EINVAL, "Invalid function parameters", EmptyStr),
               instances)
    ELSE LET out == Body(func, inst, bound.env, services, instances, fault)
             after == [instances EXCEPT ![service] = out.inst] IN
         IF out.exc = TypeError
         THEN Result(RpcException(EINVAL, "Invalid function parameters",
                                  EmptyStr),
                     NoValue, TRUE, func.name, inst, bound.env, out.exc,
                     after)
         ELSE Result(out.exc, out.value, TRUE, func.name, inst, bound.env,
                     out.exc, after)

\* lines 43-56 of dispatch_call: the attribute is looked up on the instance
\* registered under service and called with args
invoke(services, instances, service, name, args, fault) ==
    IF service \notin DOMAIN instances
    THEN Raise(KeyError, instances)
    ELSE IF ~hasattr(instances[service], name)
    THEN Raise(RpcException(ENOENT, "Method not found", EmptyStr), instances)
    ELSE LET inst == instances[service]
             func == getattr(inst, name) IN
         IF args.type = "dict"
         THEN call(func, inst, service, bind_keywords(func, args), services,
                   instances, fault)
         ELSE IF args.type = "list"
         THEN call(func, inst, service, bind_positional(func, args),
                   services, instances, fault)
         ELSE Raise(RpcException(EINVAL,
                        "Function parameters should be passed as dictionary or array",
                        EmptyStr),
                    instances)

\* lines 31-41 of dispatch_call: the path is split, args defaults to {} and
\* the service is looked for in services
Route(exc, service, name, args) ==
    [exc |-> exc, service |-> service, name |-> name, args |-> args]

route(services, method, args) ==
    LET parts == rpartition(method)
        service == parts[1]
        name == parts[3]
        args1 == IF args.type = "NoneType"
                 THEN [type |-> "dict", kw |-> NoKw, pos |-> <<>>]
                 ELSE args
    IN
    IF service = EmptyStr
    THEN Route(RpcException(EINVAL, "Invalid function path", EmptyStr),
               service, name, args1)
    ELSE IF service \notin DOMAIN services
    THEN Route(RpcException(ENOENT, "Service {0} not found", service),
               service, name, args1)
    ELSE Route(NoExc, service, name, args1)

\* RpcContext.dispatch_call(method, args)
dispatch_call(services, instances, method, args, fault) ==
    LET r == route(services, method, args) IN
    IF r.exc # NoExc THEN Raise(r.exc, instances)
    ELSE invoke(services, instances, r.service, r.name, r.args, fault)

(* ------------------------------ registry ------------------------------- *)
\* d[key] = value and del d[key] on a dict
Put(d, key, value) ==
    [k \in DOMAIN d \cup {key} |-> IF k = key THEN value ELSE d[k]]
Del(d, key) == [k \in DOMAIN d \ {key} |-> d[k]]

\* the identity of a new object: one no live instance has
NewId(insts) ==
    CHOOSE i \in 1..(Cardinality(DOMAIN insts) + 1) :
        /\ \A n \in DOMAIN insts : insts[n].id # i
        /\ \A j \in 1..(i - 1) : \E n \in DOMAIN insts : insts[n].id = j

Registry(svcs, insts, exc) ==
    [services |-> svcs, instances |-> insts, exc |-> exc]

\* line 19: self.services[name] = clazz
register_store(svcs, name, clazz) == Put(svcs, name, clazz)
\* line 20: self.instances[name] = clazz()
register_construct(insts, name, clazz) ==
    Put(insts, name, NewInstance(NewId(insts), clazz))
\* line 21: self.instances[name].initialize(self); dispatcher is what
\* context.dispatcher offers to initialize
register_initialize(svcs, insts, name, dispatcher) ==
    IF name \notin DOMAIN insts THEN Registry(svcs, insts, KeyError)
    ELSE LET r == Initialize(insts[name], RpcCtx, dispatcher) IN
         Registry(svcs, Put(insts, name, r.inst), r.exc)

\* a faulty variant of register_service: a name already registered is left alone
register_if_absent(svcs, insts, name, clazz, dispatcher) ==
    IF name \in DOMAIN svcs THEN Registry(svcs, insts, NoExc)
    ELSE register_initialize(register_store(svcs, name, clazz),
                             register_construct(insts, name, clazz),
                             name, dispatcher)

\* RpcContext.register_service(name, clazz)
register_service(svcs, insts, name, clazz, dispatcher) ==
    register_initialize(register_store(svcs, name, clazz),
                        register_construct(insts, name, clazz),
                        name, dispatcher)

\* line 27: del self.instances[name]
unregister_instance(svcs, insts, name) ==
    IF name \notin DOMAIN insts THEN Registry(svcs, insts, KeyError)
    ELSE Registry(svcs, Del(insts, name), NoExc)
\* line 28: del self.services[name]
unregister_class(svcs, insts, name) ==
    IF name \notin DOMAIN svcs THEN Registry(svcs, insts, KeyError)
    ELSE Registry(Del(svcs, name), insts, NoExc)

\* a faulty variant of unregister_service: the class entry is left behind
unregister_instance_only(svcs, insts, name) ==
    IF name \notin DOMAIN svcs THEN Registry(svcs, insts, NoExc)
    ELSE unregister_instance(svcs, insts, name)

\* RpcContext.unregister_service(name)
unregister_service(svcs, insts, name) ==
    IF name \notin DOMAIN svcs THEN Registry(svcs, insts, NoExc)
    ELSE LET r == unregister_instance(svcs, insts, name) IN
         IF r.exc # NoExc THEN r
         ELSE unregister_class(r.services, r.instances, name)

(* ------------------------------ inputs --------------------------------- *)
\* the names plugins register services under, and the names unregistered
RegisterNames == {net_math}
UnregisterNames == {server, net_math}
\* what context.dispatcher has when a service is registered
DispatcherStates == {DispatcherAttrs, {"datastore"}, {}}

Path(service, name) == service \o <<Dot>> \o name
\* the method paths callers ask for
MethodPaths ==
    { <<"noDotAtAll">>, EmptyStr, <<Dot>>, <<Dot>> \o status,
      <<Dot, Dot>> \o status, Path(geometry, status) }
    \cup { Path(server, n) :
             n \in {status, missing, EmptyStr, enumerate_methods,
                    mangled("ManagementService", "context")} }
    \cup { Path(discovery, n) :
             n \in {get_services, get_methods, dunder_init, initialize,
                    enumerate_methods, mangled("DiscoveryService", "context")} }
    \cup { Path(task, n) : n \in {submit, list_tasks, status, initialize} }
    \cup { Path(event, n) : n \in {query} }
    \cup { Path(net_math, n) :
             n \in {status, submit, get_services, missing} }

(* ------------------------------ state ---------------------------------- *)
VARIABLES
    services,    \* RpcContext.services: name -> class
    instances,   \* RpcContext.instances: name -> instance
    latest,      \* history: the last completed registry call on each name
    reply,       \* the call that has just returned and what it returned
    pc           \* where each thread stands inside the call it is making

vars == <<services, instances, latest, reply, pc>>

\* the threads of the hosting process that call into the context
Threads == {"t1", "t2"}
\* a thread's place: the line it executes next and the locals of its call
Place(at, name, clazz, dispatcher, method, member, args) ==
    [at |-> at, name |-> name, clazz |-> clazz, dispatcher |-> dispatcher,
     method |-> method, member |-> member, args |-> args]
Outside == Place("idle", EmptyStr, "", {}, EmptyStr, EmptyStr, NoneArgs)

Reply(op, name, clazz, args, res) ==
    [op |-> op, name |-> name, clazz |-> clazz, args |-> args,
     raised |-> res.raised, exc |-> res.exc, value |-> res.value,
     invoked |-> res.invoked, member |-> res.member, inst |-> res.inst,
     initialized |-> res.initialized, env |-> res.env,
     bodyexc |-> res.bodyexc]
NoReply == Reply("", EmptyStr, "", NoneArgs, Raise(NoExc, <<>>))

\* RpcContext.__init__: the four services are registered in turn
Construct ==
    LET r1 == register_service(<<>>, <<>>, server, "ManagementService",
                               DispatcherAttrs)
        r2 == register_service(r1.services, r1.instances, discovery,
                               "DiscoveryService", DispatcherAttrs)
        r3 == register_service(r2.services, r2.instances, task,
                               "TaskService", DispatcherAttrs)
        r4 == register_service(r3.services, r3.instances, event,
                               "EventService", DispatcherAttrs)
    IN r4

Init ==
    /\ services = Construct.services
    /\ instances = Construct.instances
    /\ latest = [n \in DOMAIN Construct.services |-> "register"]
    /\ reply = NoReply
    /\ pc = [t \in Threads |-> Outside]

Register(name, clazz, dispatcher) ==
    /\ LET r == register_service(services, instances, name, clazz,
                                 dispatcher) IN
       /\ services' = r.services
       /\ instances' = r.instances
       /\ reply' = Reply("register_service", name, clazz, NoneArgs,
                         Raise(r.exc, <<>>))
    /\ latest' = Put(latest, name, "register")
    /\ UNCHANGED pc

Unregister(name) ==
    /\ LET r == unregister_service(services, instances, name) IN
       /\ services' = r.services
       /\ instances' = r.instances
       /\ reply' = Reply("unregister_service", name, "", NoneArgs,
                         Raise(r.exc, <<>>))
    /\ latest' = Put(latest, name, "unregister")
    /\ UNCHANGED pc

\* a collaborator can only fail when the call reaches one
FaultsOf(res) == IF res.invoked /\ res.opaque THEN Faults ELSE {"none"}

DispatchCall(method, args) ==
    /\ \E fault \in FaultsOf(dispatch_call(services, instances, method, args,
                                          "none")) :
         LET res == dispatch_call(services, instances, method, args, fault)
         IN /\ instances' = res.instances
            /\ reply' = Reply("dispatch_call", method, "", args, res)
    /\ UNCHANGED <<services, latest, pc>>

\* the caller takes the answer; the next call can be made
Return ==
    /\ reply # NoReply
    /\ reply' = NoReply
    /\ UNCHANGED <<services, instances, latest, pc>>

\* one caller at a time: a call is made once the previous one has returned
Idle == reply = NoReply

Next ==
    \/ /\ Idle
       /\ \E name \in RegisterNames, clazz \in Classes, d \in DispatcherStates :
             Register(name, clazz, d)
    \/ /\ Idle
       /\ \E name \in UnregisterNames : Unregister(name)
    \/ /\ Idle
       /\ \E method \in MethodPaths, args \in ArgInputs :
             DispatchCall(method, args)
    \/ Return

Spec == Init /\ [][Next]_vars

(* ------------------------------ threads -------------------------------- *)
\* The same calls made by several threads with no lock around the registry:
\* a thread runs one statement of register_service or unregister_service,
\* or one half of dispatch_call, at a time.
ConcNames == {net_math}
ConcClasses == {"ManagementService", "EventService"}
ConcDispatchers == {DispatcherAttrs, {}}
ConcPaths == {Path(net_math, status), Path(net_math, enumerate_methods)}

At(t, at) == pc[t].at = at
Goto(t, place) == pc' = [pc EXCEPT ![t] = place]
Done(t, op, name, clazz, args, res) ==
    /\ reply' = Reply(op, name, clazz, args, res)
    /\ Goto(t, Outside)

\* line 19
RegisterStore(t, name, clazz, dispatcher) ==
    /\ At(t, "idle")
    /\ services' = register_store(services, name, clazz)
    /\ Goto(t, Place("line20", name, clazz, dispatcher, EmptyStr, EmptyStr,
                     NoneArgs))
    /\ UNCHANGED <<instances, latest, reply>>

\* line 20
RegisterConstruct(t) ==
    /\ At(t, "line20")
    /\ instances' = register_construct(instances, pc[t].name, pc[t].clazz)
    /\ Goto(t, [pc[t] EXCEPT !.at = "line21"])
    /\ UNCHANGED <<services, latest, reply>>

\* line 21
RegisterInitialize(t) ==
    /\ At(t, "line21")
    /\ LET r == register_initialize(services, instances, pc[t].name,
                                    pc[t].dispatcher) IN
       /\ instances' = r.instances
       /\ Done(t, "register_service", pc[t].name, pc[t].clazz, NoneArgs,
               Raise(r.exc, <<>>))
    /\ latest' = Put(latest, pc[t].name, "register")
    /\ UNCHANGED services

\* lines 24-25
UnregisterCheck(t, name) ==
    /\ At(t, "idle")
    /\ IF name \notin DOMAIN services
       THEN /\ Done(t, "unregister_service", name, "", NoneArgs,
                    Raise(NoExc, <<>>))
            /\ latest' = Put(latest, name, "unregister")
       ELSE /\ Goto(t, Place("line27", name, "", {}, EmptyStr, EmptyStr,
                             NoneArgs))
            /\ UNCHANGED <<latest, reply>>
    /\ UNCHANGED <<services, instances>>

\* line 27
UnregisterInstance(t) ==
    /\ At(t, "line27")
    /\ LET r == unregister_instance(services, instances, pc[t].name) IN
       /\ instances' = r.instances
       /\ IF r.exc # NoExc
          THEN /\ Done(t, "unregister_service", pc[t].name, "", NoneArgs,
                       Raise(r.exc, <<>>))
               /\ latest' = Put(latest, pc[t].name, "unregister")
          ELSE /\ Goto(t, [pc[t] EXCEPT !.at = "line28"])
               /\ UNCHANGED <<latest, reply>>
    /\ UNCHANGED services

\* line 28
UnregisterClass(t) ==
    /\ At(t, "line28")
    /\ LET r == unregister_class(services, instances, pc[t].name) IN
       /\ services' = r.services
       /\ Done(t, "unregister_service", pc[t].name, "", NoneArgs,
               Raise(r.exc, <<>>))
    /\ latest' = Put(latest, pc[t].name, "unregister")
    /\ UNCHANGED instances

\* lines 31-41
DispatchRoute(t, method, args) ==
    /\ At(t, "idle")
    /\ LET r == route(services, method, args) IN
       IF r.exc # NoExc
       THEN Done(t, "dispatch_call", method, "", args, Raise(r.exc, <<>>))
       ELSE /\ Goto(t, Place("line43", r.service, "", {}, method, r.name,
                             r.args))
            /\ UNCHANGED reply
    /\ UNCHANGED <<services, instances, latest>>

\* lines 43-56
DispatchInvoke(t) ==
    /\ At(t, "line43")
    /\ \E fault \in FaultsOf(invoke(services, instances, pc[t].name,
                                   pc[t].member, pc[t].args, "none")) :
         LET res == invoke(services, instances, pc[t].name, pc[t].member,
                           pc[t].args, fault)
         IN /\ instances' = res.instances
            /\ Done(t, "dispatch_call", pc[t].method, "", pc[t].args, res)
    /\ UNCHANGED <<services, latest>>

NextConc ==
    \E t \in Threads :
        \/ \E name \in ConcNames, clazz \in ConcClasses,
              d \in ConcDispatchers : RegisterStore(t, name, clazz, d)
        \/ RegisterConstruct(t)
        \/ RegisterInitialize(t)
        \/ \E name \in ConcNames : UnregisterCheck(t, name)
        \/ UnregisterInstance(t)
        \/ UnregisterClass(t)
        \/ \E method \in ConcPaths : DispatchRoute(t, method, NoneArgs)
        \/ DispatchInvoke(t)

SpecConc == Init /\ [][NextConc]_vars

(* ------------------------------ claims --------------------------------- *)
\* the answer in hand is that of a dispatch_call
Dispatched == reply.op = "dispatch_call"

\* the split a method path should get, stated without rpartition: the
\* position of the "." that has no "." after it, 0 if the path has none
LastDot(m) ==
    IF \A i \in 1..Len(m) : m[i] # Dot THEN 0
    ELSE CHOOSE i \in 1..Len(m) :
             m[i] = Dot /\ \A j \in (i + 1)..Len(m) : m[j] # Dot
ServiceOf(m) == SubSeq(m, 1, LastDot(m) - 1)
OperationOf(m) == SubSeq(m, LastDot(m) + 1, Len(m))

IsRpcError(exc, code) == exc.type = "RpcException" /\ exc.code = code
InvalidParameters ==
    RpcException(EINVAL, "Invalid function parameters", EmptyStr)

\* the member a dispatched path names on the registered instance
Named(m) ==
    /\ ServiceOf(m) \in DOMAIN services
    /\ ServiceOf(m) \in DOMAIN instances
    /\ hasattr(instances[ServiceOf(m)], OperationOf(m))
Target(m) == getattr(instances[ServiceOf(m)], OperationOf(m))
IsOperation(m) == Named(m) /\ Target(m).kind = "method"

\* C1: a path to a registered service whose operation name the service's
\* enumerate_methods does not list fails with ENOENT and invokes nothing.
UnlistedNeverInvoked ==
    ( /\ Dispatched
      /\ ServiceOf(reply.name) \in DOMAIN instances
      /\ OperationOf(reply.name) \notin
            Range(EnumerateMethods(instances[ServiceOf(reply.name)])) )
    => IsRpcError(reply.exc, ENOENT) /\ ~reply.invoked

\* C2: an exception raised by the body of an operation whose arguments bound
\* leaves dispatch_call unchanged, whatever its type.
BodyErrorsUnchanged ==
    (Dispatched /\ reply.invoked /\ reply.bodyexc # NoExc)
    => reply.exc = reply.bodyexc

\* C5: the path is split at its last "."; an empty service name gives EINVAL,
\* else an unregistered service gives ENOENT, else a name that is no
\* attribute of the instance gives ENOENT, nothing being invoked in these
\* cases; any other path gets past resolution, to that attribute of that
\* instance.
SplitAndClassify ==
    Dispatched =>
    LET svc == ServiceOf(reply.name)
        opn == OperationOf(reply.name)
        resolution == {"Invalid function path", "Service {0} not found",
                       "Method not found"}
    IN
    IF svc = EmptyStr
    THEN IsRpcError(reply.exc, EINVAL) /\ ~reply.invoked
    ELSE IF svc \notin DOMAIN services
    THEN IsRpcError(reply.exc, ENOENT) /\ ~reply.invoked
    ELSE IF ~hasattr(instances[svc], opn)
    THEN IsRpcError(reply.exc, ENOENT) /\ ~reply.invoked
    ELSE /\ reply.exc.message \notin resolution
         /\ reply.invoked =>
               reply.inst = instances[svc].id /\ reply.member = opn
SplitAndClassifyWitness ==
    /\ Dispatched
    /\ reply.name = Path(net_math, status)
    /\ reply.invoked
    /\ ~reply.raised

\* the dict a caller would pass to give the parameters of func the values
\* of the list pos
AsKeywords(func, pos) ==
    [type |-> "dict",
     kw |-> [k \in ArgKeys |->
               IF k \in Range(func.params) THEN pos[IndexOf(func.params, k)]
               ELSE Absent],
     pos |-> <<>>]

\* C6: for a resolved operation the shape of args alone picks the binding:
\* a dict binds by name, a list binds position by position in order, any
\* other value fails with EINVAL and invokes nothing; and a list and the
\* dict that names the same values return the same result.
BindingByShape ==
    (Dispatched /\ IsOperation(reply.name)) =>
    LET func == Target(reply.name)
        a == reply.args
        n == Len(a.pos)
    IN
    /\ a.type \notin {"dict", "list", "NoneType"} =>
          IsRpcError(reply.exc, EINVAL) /\ ~reply.invoked
    /\ (reply.invoked /\ a.type \in {"dict", "NoneType"}) =>
          \A q \in Range(func.params) :
              reply.env[q] = IF q \in keys(a) THEN a.kw[q] ELSE PyNone
    /\ (reply.invoked /\ a.type = "list") =>
          \A i \in 1..Len(func.params) :
              reply.env[func.params[i]] = IF i <= n THEN a.pos[i] ELSE PyNone
    /\ ( /\ a.type = "list"
         /\ ~reply.raised
         /\ n = Len(func.params)
         /\ Range(func.params) \subseteq ArgKeys ) =>
          LET other == dispatch_call(services, instances, reply.name,
                                     AsKeywords(func, a.pos), "none")
          IN ~other.raised /\ other.value = reply.value
BindingByShapeWitness ==
    /\ Dispatched
    /\ reply.name = Path(task, submit)
    /\ reply.args.type = "list"
    /\ reply.args.pos = <<task, geometry>>
    /\ ~reply.raised
    /\ reply.value.env["name"] = task
    /\ reply.value.env["args"] = geometry

\* C7: an operation is entered with {} (or None) exactly when it has no
\* parameter without a default; more generally it is entered exactly when
\* the dict names only its parameters and all the required ones, or the list
\* has a length it accepts; otherwise the call fails EINVAL "Invalid
\* function parameters"; what an entered operation returns is returned as is.
BindingFailuresInvalid ==
    (Dispatched /\ IsOperation(reply.name)
        /\ reply.args.type \in {"dict", "list", "NoneType"}) =>
    LET func == Target(reply.name)
        a == reply.args
        all == Range(func.params)
        required == {func.params[i] : i \in 1..func.nreq}
        fits == IF a.type = "list"
                THEN Len(a.pos) >= func.nreq /\ Len(a.pos) <= Len(func.params)
                ELSE keys(a) \subseteq all /\ required \subseteq keys(a)
    IN
    /\ reply.invoked <=> fits
    /\ ~fits => reply.exc = InvalidParameters
    /\ (a.type = "NoneType" \/ (a.type = "dict" /\ keys(a) = {})) =>
          (reply.invoked <=> func.nreq = 0)
    /\ (reply.invoked /\ reply.bodyexc = NoExc) =>
          /\ ~reply.raised
          /\ func.body = "callret" =>
                /\ reply.value.kind = "collab"
                /\ reply.value.call = func.name
                /\ reply.value.env = reply.env
          /\ func.body \in {"pass", "call"} => reply.value = NoneValue
BindingFailuresInvalidWitness ==
    /\ Dispatched
    /\ reply.name = Path(discovery, get_methods)
    /\ reply.args = NoneArgs
    /\ reply.exc = InvalidParameters
    /\ ~reply.invoked

\* C8: enumerate_methods yields each method of the instance once, except
\* initialize, enumerate_methods and the names that begin with "_", and
\* nothing else; get_methods returns that list.
EnumerateExact ==
    /\ \A s \in DOMAIN instances :
          LET e == EnumerateMethods(instances[s])
              methods == {m.name : m \in {x \in Range(getmembers(instances[s])) :
                                             x.kind = "method"}}
          IN /\ Range(e) = {x \in methods :
                               /\ x # initialize
                               /\ x # enumerate_methods
                               /\ x[1] # Underscore}
             /\ \A i, j \in 1..Len(e) : e[i] = e[j] => i = j
    /\ (Dispatched /\ reply.member = get_methods /\ ~reply.raised) =>
          /\ reply.value.kind = "list"
          /\ reply.value.names =
                EnumerateMethods(instances[reply.env["service"]])
EnumerateExactWitness ==
    /\ Dispatched
    /\ reply.name = Path(discovery, get_methods)
    /\ ~reply.raised
    /\ reply.env["service"] = task
    /\ Len(reply.value.names) = Len(Methods("TaskService")) - 2

\* C10: after completed register and unregister calls services and
\* instances have the same keys and each instance is of the class stored
\* under its key, so the instance lookup of dispatch_call never fails.
RegistryConsistent ==
    /\ DOMAIN services = DOMAIN instances
    /\ \A n \in DOMAIN services : instances[n].clazz = services[n]
    /\ Dispatched => reply.exc # KeyError
\* server was unregistered and a TaskService whose initialize raised is
\* registered
RegistryConsistentWitness ==
    /\ reply.op = "register_service"
    /\ reply.raised
    /\ server \notin DOMAIN services
    /\ net_math \in DOMAIN services
    /\ services[net_math] = "TaskService"
    /\ latest[server] = "unregister"

\* C3: no dispatch_call enters an operation of an instance on which no
\* initialize call has returned.
InitializedBeforeReachable ==
    (Dispatched /\ reply.invoked) => reply.initialized

\* C4: a dispatch_call that runs beside register_service and
\* unregister_service never meets a name that is in services and not in
\* instances: its routing failures are RpcExceptions ENOENT or EINVAL.
RoutingFailuresClassified ==
    (Dispatched /\ reply.raised /\ ~reply.invoked)
    => IsRpcError(reply.exc, ENOENT) \/ IsRpcError(reply.exc, EINVAL)

\* C9: the registry is a map with unique keys: a name is registered exactly
\* when the last call on it was register_service; register_service puts a
\* new instance of the class under the name whether or not the name was
\* taken, and raises only what initialize raised; unregister_service takes
\* the name out and raises nothing, also when the name is absent; neither
\* touches another name; dispatch_call reaches the instance now registered
\* and fails ENOENT for a name taken out.
OthersUntouched(n) ==
    /\ DOMAIN services' \ {n} = DOMAIN services \ {n}
    /\ DOMAIN instances' \ {n} = DOMAIN instances \ {n}
    /\ \A k \in DOMAIN services \ {n} : services'[k] = services[k]
    /\ \A k \in DOMAIN instances \ {n} : instances'[k] = instances[k]
RegistryStep ==
    /\ (Idle /\ reply'.op = "register_service") =>
          LET n == reply'.name IN
          /\ n \in DOMAIN services' /\ n \in DOMAIN instances'
          /\ services'[n] = reply'.clazz
          /\ instances'[n].clazz = reply'.clazz
          /\ \A k \in DOMAIN instances : instances'[n].id # instances[k].id
          /\ reply'.raised <=> ~instances'[n].initialized
          /\ OthersUntouched(n)
    /\ (Idle /\ reply'.op = "unregister_service") =>
          LET n == reply'.name IN
          /\ n \notin DOMAIN services' /\ n \notin DOMAIN instances'
          /\ ~reply'.raised
          /\ OthersUntouched(n)
    /\ (Idle /\ reply'.op = "dispatch_call") =>
          LET svc == ServiceOf(reply'.name) IN
          /\ DOMAIN services' = DOMAIN services
          /\ svc # EmptyStr /\ svc \notin DOMAIN services =>
                IsRpcError(reply'.exc, ENOENT)
          /\ reply'.invoked =>
                svc \in DOMAIN instances /\ reply'.inst = instances[svc].id
RegistryIsMap ==
    /\ [](\A n \in DOMAIN latest \cup DOMAIN services :
             n \in DOMAIN services
                <=> (n \in DOMAIN latest /\ latest[n] = "register"))
    /\ [][RegistryStep]_vars
\* a name that was taken is registered again: the new instance had to be
\* made while the old one was still there
RegistryIsMapWitness ==
    /\ reply.op = "register_service"
    /\ ~reply.raised
    /\ net_math \in DOMAIN instances
    /\ instances[net_math].id > Cardinality(DOMAIN instances)
====
